---- MODULE Spec2Model ----
(***************************************************************************)
(* The agentic retrieval loop of SearchAgent (src/src/index.ts).           *)
(*                                                                         *)
(* Every handler of an inbound message is a sequential process whose       *)
(* position pc[h] names the await it is suspended in.  One action is the   *)
(* code that runs between two awaits.  Texts are sequences of characters   *)
(* so that String.prototype.trim and JavaScript truthiness are computed.   *)
(***************************************************************************)
EXTENDS Integers, Sequences, FiniteSets, TLC

(***************************************************************************)
(* Bounds of the model.                                                    *)
(***************************************************************************)
MaxTurns == 1        \* inbound messages handled in one session
MaxSearches == 2     \* searches the extractor sessions of one turn issue
MaxParallel == 2     \* tool calls one generation step carries
MaxParts == 2        \* parts the synthesis stream delivers in one turn

(***************************************************************************)
(* Program constants.                                                      *)
(***************************************************************************)
maxIterations == 5
stepLimit == 5

(***************************************************************************)
(* Values.                                                                 *)
(***************************************************************************)
Handlers == {1, 2}
Sequential == {1}

Undefined == <<"undefined">>

RewriteTexts == { <<"r", " ">>, <<" ">> }
ExtractorTexts == { <<>>, <<" ">>, <<"k">> }
NextQueries == { Undefined, <<>>, <<"n">> }
ToolQueries == { <<"s">> }
Fragments == { <<" ">>, <<"t">> }
RagNames == { "", "rag1" }

Decisions ==
    [isKnowledgeEnough : BOOLEAN, nextSearchQuery : NextQueries]

\* searchResults.data of a resolved search; <<>> stands for both a missing
\* and an empty data array (line 218 treats them alike)
SearchData ==
    { <<>>,
      << [filename |-> <<"f">>, file_id |-> 1] >>,
      << [filename |-> <<>>, file_id |-> 3],
         [filename |-> <<"f">>, file_id |-> 2],
         [filename |-> <<"Unknown">>, file_id |-> 1] >> }

\* error.message of a rejected search
SearchErrors == { <<"e">> }

\* 'No relevant documents found for this query.'
NoDocumentsMessage == <<"N", "o">>

\* 'Failed to search the database'
FailedToSearch == <<"F", "a", "i", "l", "e", "d">>

Msg(r, c) == [role |-> r, content |-> c]

\* data.messages: the turns the client sends in one frame
InboundMessages ==
    { <<>>,
      << Msg("user", <<"a">>) >>,
      << Msg("assistant", <<"x">>), Msg("user", <<" ", "b">>) >>,
      << Msg("user", <<"a">>), Msg("user", <<" ", "b">>) >> }

(***************************************************************************)
(* Pure helpers of the code.                                               *)
(***************************************************************************)
RECURSIVE TrimStart(_)
TrimStart(s) ==
    IF s # <<>> /\ Head(s) = " " THEN TrimStart(Tail(s)) ELSE s

RECURSIVE TrimEnd(_)
TrimEnd(s) ==
    IF s # <<>> /\ s[Len(s)] = " " THEN TrimEnd(SubSeq(s, 1, Len(s) - 1)) ELSE s

Trim(s) == TrimEnd(TrimStart(s))

\* JavaScript truthiness of an optional string
Truthy(s) == s # Undefined /\ s # <<>>

\* msgs.filter(p) for p = (role === 'user'), then .map(content)
RECURSIVE UserContents(_)
UserContents(msgs) ==
    IF msgs = <<>> THEN <<>>
    ELSE IF Head(msgs).role = "user"
         THEN <<Head(msgs).content>> \o UserContents(Tail(msgs))
         ELSE UserContents(Tail(msgs))

\* this.messages.slice(0, -1).filter(user).map(content)
PreviousUserMessages(msgs) ==
    IF msgs = <<>> THEN <<>> ELSE UserContents(SubSeq(msgs, 1, Len(msgs) - 1))


(***************************************************************************)
(* State.                                                                  *)
(***************************************************************************)
VARIABLES
    messages,              \* this.messages, the in-memory history
    storage,               \* ctx.storage 'messages': [has, value]
    selectedRag,           \* this.state.selectedRag
    totalSearches,         \* this.state.totalSearches
    turns,                 \* inbound messages delivered so far
    greeting,              \* what the last onConnect sent on its connection
    connected,             \* whether a client has connected, and what was stored when the last one did
    pc,                    \* per handler: the await it is suspended in
    inbound,               \* per handler: data.messages of its inbound message
    allFiles,              \* per handler: the Map, as its entries in insertion order
    accumulatedKnowledge,  \* per handler
    iteration,             \* per handler
    userQuery,             \* per handler
    currentSearchQuery,    \* per handler
    steps,                 \* per handler: generation steps of the running extractor session
    completeResponse,      \* per handler
    parts,                 \* per handler: stream parts consumed
    toolResult,            \* per handler: what performSearch last returned
    returned,              \* per handler: every payload performSearch returned in this turn
    sent,                  \* per handler: what connection.send was given in this turn
    extractorInputs,       \* per handler: the search query in each extractor prompt of this turn
    extractorOutputs,      \* per handler: the text each extractor session of this turn returned
    decisions,             \* per handler: the decision objects returned in this turn
    calls,                 \* per handler: external calls issued in this turn; searches that rejected, or resolved with no data; the target of each search
    failed,                \* per handler: the kinds of call that failed in this turn
    loopHistory,           \* per handler: this.messages as the loop read it at its start
    prompts,               \* per handler: what the evaluator and synthesizer prompts of this turn carried
    turnBase,              \* per handler: the stored history when its message arrived
    outcome                \* per handler: how its last turn ended

shared == <<messages, storage, selectedRag, totalSearches, turns, greeting,
            connected>>
locals == <<inbound, allFiles, accumulatedKnowledge, iteration, userQuery,
            currentSearchQuery, steps, completeResponse, parts, toolResult,
            returned>>
history == <<sent, extractorInputs, extractorOutputs, decisions, calls, failed,
             loopHistory, prompts, turnBase, outcome>>
vars == <<shared, pc, locals, history>>

\* performSearch has not returned in this turn
NoToolResult == [success |-> FALSE, found |-> FALSE, count |-> -1]

NoCalls ==
    [rewrite |-> 0, evaluate |-> 0, synth |-> 0, search |-> 0, rejected |-> 0,
     empty |-> 0, targets |-> <<>>]

Event(t, d) == [type |-> t, data |-> d]

Init ==
    /\ messages = <<>>
    /\ storage = [has |-> FALSE, value |-> <<>>]
    /\ selectedRag = ""
    /\ totalSearches = 0
    /\ turns = 0
    /\ greeting = <<>>
    /\ connected = [done |-> FALSE, has |-> FALSE, value |-> <<>>]
    /\ pc = [h \in Handlers |-> "idle"]
    /\ inbound = [h \in Handlers |-> <<>>]
    /\ allFiles = [h \in Handlers |-> <<>>]
    /\ accumulatedKnowledge = [h \in Handlers |-> <<>>]
    /\ iteration = [h \in Handlers |-> 0]
    /\ userQuery = [h \in Handlers |-> <<>>]
    /\ currentSearchQuery = [h \in Handlers |-> <<>>]
    /\ steps = [h \in Handlers |-> 0]
    /\ completeResponse = [h \in Handlers |-> <<>>]
    /\ parts = [h \in Handlers |-> 0]
    /\ toolResult = [h \in Handlers |-> NoToolResult]
    /\ returned = [h \in Handlers |-> <<>>]
    /\ sent = [h \in Handlers |-> <<>>]
    /\ extractorInputs = [h \in Handlers |-> <<>>]
    /\ extractorOutputs = [h \in Handlers |-> <<>>]
    /\ decisions = [h \in Handlers |-> <<>>]
    /\ calls = [h \in Handlers |-> NoCalls]
    /\ failed = [h \in Handlers |-> {}]
    /\ loopHistory = [h \in Handlers |-> <<>>]
    /\ prompts = [h \in Handlers |-> <<>>]
    /\ turnBase = [h \in Handlers |-> <<>>]
    /\ outcome = [h \in Handlers |-> "none"]

(***************************************************************************)
(* The loop's decisions, as the code computes them.                        *)
(***************************************************************************)
\* iteration++
NextIteration(i) == i + 1

\* a rewrite whenever anything at all precedes the current message
NeedsRewriteAnyPrior(msgs) == Len(msgs) > 1

\* previousUserMessages.length > 0
NeedsRewrite(msgs) == Len(PreviousUserMessages(msgs)) > 0

\* rewriteResult.text.trim()
RewrittenQuery(text) == Trim(text)

\* the test without the trim
HasKnowledgeNoTrim(text) == text # <<>>

\* if (newKnowledge.trim())
HasKnowledge(text) == Trim(text) # <<>>

\* the stop test without its iteration bound, without its sufficiency test,
\* and with the bound off by one
StopConditionNoMax(d, it) == d.isKnowledgeEnough
StopConditionMaxOnly(d, it) == it >= maxIterations
StopConditionOffByOne(d, it) == d.isKnowledgeEnough \/ it > maxIterations

\* decision.object.isKnowledgeEnough || iteration >= maxIterations
StopCondition(d, it) == d.isKnowledgeEnough \/ it >= maxIterations

\* the test as a comparison with the empty string only
HasNextQueryNotEmpty(d) == d.nextSearchQuery # <<>>

\* if (decision.object.nextSearchQuery)
HasNextQuery(d) == Truthy(d.nextSearchQuery)

\* the assignment forgotten
AdoptedQueryStale(d, current) == current

\* currentSearchQuery = decision.object.nextSearchQuery
AdoptedQuery(d, current) == d.nextSearchQuery

\* if (!this.state.selectedRag) throw
RagSelected(rag) == rag # ""

\* result.filename || 'Unknown'
FormatFilename(fn) == IF Truthy(fn) THEN fn ELSE <<"Unknown">>

\* searchResults.data.map(...): the fields of a formatted result the loop keeps
FormatResults(data) ==
    [i \in 1..Len(data) |->
        [rank |-> i,
         filename |-> FormatFilename(data[i].filename),
         file_id |-> data[i].file_id]]

\* a Map that outlives the call
NewMapKept(old) == old

\* const allFiles = new Map(): every call of streamWithMultiStepTools starts
\* with an empty one, whatever an earlier call collected
NewMap(old) == <<>>

HasKey(m, k) == \E i \in 1..Len(m) : m[i].filename = k

\* an array push in place of the Map
MapSetPush(m, k, v) == Append(m, v)

\* a set that leaves an existing key alone
MapSetKeepFirst(m, k, v) == IF HasKey(m, k) THEN m ELSE Append(m, v)

\* Map.prototype.set: a new key is appended, an existing key keeps its place
\* and takes the new value
MapSet(m, k, v) ==
    IF HasKey(m, k)
    THEN [i \in 1..Len(m) |-> IF m[i].filename = k THEN v ELSE m[i]]
    ELSE Append(m, v)

\* for (const result of formattedResults) if (result.filename) allFiles.set(...)
RECURSIVE CollectFiles(_, _)
CollectFiles(m, results) ==
    IF results = <<>> THEN m
    ELSE LET r == Head(results)
             m1 == IF Truthy(r.filename)
                   THEN MapSet(m, r.filename,
                               [filename |-> r.filename, file_id |-> r.file_id])
                   ELSE m
         IN CollectFiles(m1, Tail(results))

\* the no-results payload reporting a hit
NoResultsPayloadFound ==
    [success |-> TRUE, found |-> TRUE, message |-> NoDocumentsMessage,
     count |-> 0, results |-> <<>>]

\* the payload of a search that found nothing (lines 219-225)
NoResultsPayload ==
    [success |-> TRUE, found |-> FALSE, message |-> NoDocumentsMessage,
     count |-> 0, results |-> <<>>]

\* the payload of a search with results (lines 246-252)
FoundPayload(data) ==
    [success |-> TRUE, found |-> TRUE, count |-> Len(FormatResults(data)),
     results |-> FormatResults(data)]

\* what the try block of performSearch returns for searchResults.data
SearchPayload(data) ==
    IF data = <<>> THEN NoResultsPayload ELSE FoundPayload(data)

\* what the catch block of performSearch returns
FailurePayload(msg) ==
    [success |-> FALSE, error |-> FailedToSearch, message |-> msg,
     results |-> <<>>]

\* Array.prototype.join: the elements in order, sep between neighbours
RECURSIVE Join(_, _)
Join(list, sep) ==
    IF list = <<>> THEN <<>>
    ELSE IF Len(list) = 1 THEN list[1]
    ELSE list[1] \o sep \o Join(Tail(list), sep)

\* the separator of accumulatedKnowledge.join
KnowledgeSeparator == <<"\n", "\n">>

\* the evaluator asked about the query being searched
EvaluatorPromptSearchQuery(uq, csq, knowledge) ==
    [to |-> "evaluator", query |-> csq,
     knowledge |-> Join(knowledge, KnowledgeSeparator)]

\* what the prompt of generateObject interpolates (lines 327-332)
EvaluatorPrompt(uq, csq, knowledge) ==
    [to |-> "evaluator", query |-> uq,
     knowledge |-> Join(knowledge, KnowledgeSeparator)]

\* what the prompt of streamText interpolates (lines 366-371)
SynthesisPrompt(uq, csq, knowledge) ==
    [to |-> "synthesizer", query |-> uq,
     knowledge |-> Join(knowledge, KnowledgeSeparator)]

(***************************************************************************)
(* Fragments shared by several handlers' steps.                            *)
(***************************************************************************)
\* the catch of onMessage: one error event, the handler returns
Abort(h, kind) ==
    /\ failed' = [failed EXCEPT ![h] = @ \cup {kind}]
    /\ sent' = [sent EXCEPT ![h] = Append(@, Event("error", <<>>))]
    /\ pc' = [pc EXCEPT ![h] = "idle"]
    /\ outcome' = [outcome EXCEPT ![h] = "aborted"]

\* top of the while (true) body: iteration++ and the extractor's generateText
\* is called with currentSearchQuery in its prompt
LoopEntry(h, it, query) ==
    /\ iteration' = [iteration EXCEPT ![h] = NextIteration(it)]
    /\ currentSearchQuery' = [currentSearchQuery EXCEPT ![h] = query]
    /\ steps' = [steps EXCEPT ![h] = 0]
    /\ extractorInputs' = [extractorInputs EXCEPT ![h] = Append(@, query)]
    /\ pc' = [pc EXCEPT ![h] = "extract"]

\* after the loop: streamText is called and its stream is consumed
StartSynthesis(h) ==
    /\ completeResponse' = [completeResponse EXCEPT ![h] = <<>>]
    /\ parts' = [parts EXCEPT ![h] = 0]
    /\ calls' = [calls EXCEPT ![h].synth = @ + 1]
    /\ prompts' = [prompts EXCEPT ![h] =
                     Append(@, SynthesisPrompt(userQuery[h], currentSearchQuery[h],
                                               accumulatedKnowledge[h]))]
    /\ pc' = [pc EXCEPT ![h] = "stream"]

(***************************************************************************)
(* onConnect.                                                              *)
(***************************************************************************)
\* the history sent whenever something is stored, an empty list included
OnConnectAlways ==
    /\ connected' = [done |-> TRUE, has |-> storage.has, value |-> storage.value]
    /\ messages' = IF storage.has THEN storage.value ELSE messages
    /\ greeting' = IF storage.has
                   THEN <<Event("message-history", storage.value)>>
                   ELSE <<>>
    /\ UNCHANGED <<storage, selectedRag, totalSearches, turns, pc, locals,
                   history>>

\* storage.get resolved: what is stored replaces the in-memory history and,
\* if it is not empty, goes to the client as one message-history event
OnConnect ==
    /\ connected' = [done |-> TRUE, has |-> storage.has, value |-> storage.value]
    /\ messages' = IF storage.has THEN storage.value ELSE messages
    /\ greeting' = IF storage.has /\ Len(storage.value) > 0
                   THEN <<Event("message-history", storage.value)>>
                   ELSE <<>>
    /\ UNCHANGED <<storage, selectedRag, totalSearches, turns, pc, locals,
                   history>>

(***************************************************************************)
(* onMessage, up to its first await.                                       *)
(***************************************************************************)
\* what a new invocation starts from: its locals, except the Map, which
\* streamWithMultiStepTools creates itself (NewMap), and the record of the turn
ResetTurn(h) ==
    /\ accumulatedKnowledge' = [accumulatedKnowledge EXCEPT ![h] = <<>>]
    /\ iteration' = [iteration EXCEPT ![h] = 0]
    /\ userQuery' = [userQuery EXCEPT ![h] = <<>>]
    /\ currentSearchQuery' = [currentSearchQuery EXCEPT ![h] = <<>>]
    /\ steps' = [steps EXCEPT ![h] = 0]
    /\ completeResponse' = [completeResponse EXCEPT ![h] = <<>>]
    /\ parts' = [parts EXCEPT ![h] = 0]
    /\ toolResult' = [toolResult EXCEPT ![h] = NoToolResult]
    /\ returned' = [returned EXCEPT ![h] = <<>>]
    /\ extractorInputs' = [extractorInputs EXCEPT ![h] = <<>>]
    /\ extractorOutputs' = [extractorOutputs EXCEPT ![h] = <<>>]
    /\ decisions' = [decisions EXCEPT ![h] = <<>>]
    /\ calls' = [calls EXCEPT ![h] = NoCalls]
    /\ loopHistory' = [loopHistory EXCEPT ![h] = <<>>]
    /\ prompts' = [prompts EXCEPT ![h] = <<>>]
    /\ turnBase' = [turnBase EXCEPT ![h] = storage.value]

\* a frame that is not a string, or a JSON object without a messages array
OnMessageIgnored(h, rag) ==
    /\ pc[h] = "idle"
    /\ turns' = turns + 1
    /\ selectedRag' = IF RagSelected(rag) THEN rag ELSE selectedRag
    /\ ResetTurn(h)
    /\ inbound' = [inbound EXCEPT ![h] = <<>>]
    /\ sent' = [sent EXCEPT ![h] = <<>>]
    /\ failed' = [failed EXCEPT ![h] = {}]
    /\ outcome' = [outcome EXCEPT ![h] = "ignored"]
    /\ UNCHANGED <<greeting, connected, messages, storage, totalSearches, pc,
                   allFiles>>

\* JSON.parse throws
OnMessageMalformed(h) ==
    /\ pc[h] = "idle"
    /\ turns' = turns + 1
    /\ ResetTurn(h)
    /\ inbound' = [inbound EXCEPT ![h] = <<>>]
    /\ sent' = [sent EXCEPT ![h] = <<Event("error", <<>>)>>]
    /\ failed' = [failed EXCEPT ![h] = {"parse"}]
    /\ outcome' = [outcome EXCEPT ![h] = "aborted"]
    /\ UNCHANGED <<greeting, connected, messages, storage, selectedRag,
                   totalSearches, pc, allFiles>>

\* a JSON object with a messages array: storage.get is awaited
OnMessage(h, rag, msgs) ==
    /\ pc[h] = "idle"
    /\ turns' = turns + 1
    /\ selectedRag' = IF RagSelected(rag) THEN rag ELSE selectedRag
    /\ ResetTurn(h)
    /\ inbound' = [inbound EXCEPT ![h] = msgs]
    /\ sent' = [sent EXCEPT ![h] = <<>>]
    /\ failed' = [failed EXCEPT ![h] = {}]
    /\ outcome' = [outcome EXCEPT ![h] = "none"]
    /\ pc' = [pc EXCEPT ![h] = "get"]
    /\ UNCHANGED <<greeting, connected, messages, storage, totalSearches,
                   allFiles>>

\* the inbound messages taken as the whole history
AfterGetReplaces(h) ==
    /\ pc[h] = "get"
    /\ messages' = inbound[h]
    /\ storage' = [has |-> TRUE, value |-> messages']
    /\ pc' = [pc EXCEPT ![h] = "put1"]
    /\ UNCHANGED <<greeting, connected, selectedRag, totalSearches, turns,
                   locals, history>>

\* the reload and the append without the persistMessages call
AfterGetNoPersist(h) ==
    /\ pc[h] = "get"
    /\ messages' = (IF storage.has THEN storage.value ELSE messages) \o inbound[h]
    /\ pc' = [pc EXCEPT ![h] = "put1"]
    /\ UNCHANGED <<greeting, connected, storage, selectedRag, totalSearches,
                   turns, locals, history>>

\* storage.get resolved: reload, append data.messages, persistMessages calls put
AfterGet(h) ==
    /\ pc[h] = "get"
    /\ messages' = (IF storage.has THEN storage.value ELSE messages) \o inbound[h]
    /\ storage' = [has |-> TRUE, value |-> messages']
    /\ pc' = [pc EXCEPT ![h] = "put1"]
    /\ UNCHANGED <<greeting, connected, selectedRag, totalSearches, turns,
                   locals, history>>

(***************************************************************************)
(* streamWithMultiStepTools.                                               *)
(***************************************************************************)
\* put resolved: processAndStreamResponse enters streamWithMultiStepTools,
\* which runs to the consolidator's or the first extractor's generateText
AfterPut1(h) ==
    /\ pc[h] = "put1"
    /\ allFiles' = [allFiles EXCEPT ![h] = NewMap(@)]
    /\ accumulatedKnowledge' = [accumulatedKnowledge EXCEPT ![h] = <<>>]
    /\ loopHistory' = [loopHistory EXCEPT ![h] = messages]
    /\ IF messages = <<>>
       THEN \* this.messages[-1].content: TypeError, caught by onMessage
            /\ Abort(h, "history")
            /\ UNCHANGED <<userQuery, iteration, currentSearchQuery, steps,
                           extractorInputs, calls>>
       ELSE LET uq == messages[Len(messages)].content IN
            /\ userQuery' = [userQuery EXCEPT ![h] = uq]
            /\ IF NeedsRewrite(messages)
               THEN /\ iteration' = [iteration EXCEPT ![h] = 0]
                    /\ currentSearchQuery' = [currentSearchQuery EXCEPT ![h] = uq]
                    /\ calls' = [calls EXCEPT ![h].rewrite = @ + 1]
                    /\ pc' = [pc EXCEPT ![h] = "rewrite"]
                    /\ UNCHANGED <<steps, extractorInputs>>
               ELSE /\ LoopEntry(h, 0, uq)
                    /\ UNCHANGED calls
            /\ UNCHANGED <<sent, failed, outcome>>
    /\ UNCHANGED <<shared, inbound, completeResponse, parts, toolResult,
                   returned, extractorOutputs, decisions, prompts, turnBase>>

\* the rewrite adopted without telling the client
RewriteDoneSilent(h, text) ==
    /\ pc[h] = "rewrite"
    /\ LoopEntry(h, iteration[h], RewrittenQuery(text))
    /\ UNCHANGED <<shared, inbound, allFiles, accumulatedKnowledge, userQuery,
                   completeResponse, parts, toolResult, returned, sent,
                   extractorOutputs, decisions, calls, failed, loopHistory,
                   prompts, turnBase, outcome>>

\* the consolidator's generateText resolved
RewriteDone(h, text) ==
    /\ pc[h] = "rewrite"
    /\ sent' = [sent EXCEPT ![h] =
                  Append(@, Event("query-rewrite",
                                  <<userQuery[h], RewrittenQuery(text)>>))]
    /\ LoopEntry(h, iteration[h], RewrittenQuery(text))
    /\ UNCHANGED <<shared, inbound, allFiles, accumulatedKnowledge, userQuery,
                   completeResponse, parts, toolResult, returned,
                   extractorOutputs, decisions, calls, failed, loopHistory,
                   prompts, turnBase, outcome>>

\* the consolidator's generateText threw and nothing caught it before onMessage
RewriteFailUncaught(h) ==
    /\ pc[h] = "rewrite"
    /\ Abort(h, "rewrite")
    /\ UNCHANGED <<shared, locals, extractorInputs, extractorOutputs,
                   decisions, calls, loopHistory, prompts, turnBase>>

\* the consolidator's generateText threw: caught, the query stays as it was
RewriteFail(h) ==
    /\ pc[h] = "rewrite"
    /\ failed' = [failed EXCEPT ![h] = @ \cup {"rewrite"}]
    /\ LoopEntry(h, iteration[h], currentSearchQuery[h])
    /\ UNCHANGED <<shared, inbound, allFiles, accumulatedKnowledge, userQuery,
                   completeResponse, parts, toolResult, returned, sent,
                   extractorOutputs, decisions, calls, loopHistory, prompts,
                   turnBase, outcome>>

(***************************************************************************)
(* The extractor session: generateText with the searchDocuments tool.      *)
(***************************************************************************)
\* a generation step calls the tool; performSearch runs to the search await
ToolCall(h, query) ==
    /\ pc[h] = "extract"
    /\ steps[h] < stepLimit
    /\ RagSelected(selectedRag)
    /\ sent' = [sent EXCEPT ![h] = Append(@, Event("search-start", <<query>>))]
    /\ totalSearches' = totalSearches + 1
    /\ steps' = [steps EXCEPT ![h] = @ + 1]
    /\ calls' = [calls EXCEPT ![h].search = @ + 1,
                              ![h].targets = Append(@, selectedRag)]
    /\ pc' = [pc EXCEPT ![h] = "search"]
    /\ UNCHANGED <<greeting, connected, messages, storage, selectedRag, turns,
                   inbound, allFiles, accumulatedKnowledge, iteration,
                   userQuery, currentSearchQuery, completeResponse, parts,
                   toolResult, returned, extractorInputs, extractorOutputs,
                   decisions, failed, loopHistory, prompts, turnBase, outcome>>

\* the calls of performSearch whose promise is pending: every call that got
\* past the target test has either returned a payload or is still awaiting
InFlight(h) == calls[h].search - Len(returned[h])

\* the same generation step carries another tool call: generateText starts the
\* execute of every call of a step before it awaits any, so performSearch runs
\* to its await again while the earlier search is pending
ToolCallParallel(h, query) ==
    /\ pc[h] = "search"
    /\ InFlight(h) < MaxParallel
    /\ sent' = [sent EXCEPT ![h] = Append(@, Event("search-start", <<query>>))]
    /\ totalSearches' = totalSearches + 1
    /\ calls' = [calls EXCEPT ![h].search = @ + 1,
                              ![h].targets = Append(@, selectedRag)]
    /\ UNCHANGED <<greeting, connected, messages, storage, selectedRag, turns,
                   pc, locals, extractorInputs, extractorOutputs, decisions,
                   failed, loopHistory, prompts, turnBase, outcome>>

\* the counter bumped before the target is tested
ToolCallRejectedCounted(h) ==
    /\ pc[h] = "extract"
    /\ steps[h] < stepLimit
    /\ ~RagSelected(selectedRag)
    /\ totalSearches' = totalSearches + 1
    /\ steps' = [steps EXCEPT ![h] = @ + 1]
    /\ failed' = [failed EXCEPT ![h] = @ \cup {"target"}]
    /\ UNCHANGED <<greeting, connected, messages, storage, selectedRag, turns,
                   pc, inbound, allFiles, accumulatedKnowledge, iteration,
                   userQuery, currentSearchQuery, completeResponse, parts,
                   toolResult, returned, sent, extractorInputs,
                   extractorOutputs, decisions, calls, loopHistory, prompts,
                   turnBase, outcome>>

\* performSearch throws for a missing target.  What generateText does with an
\* error thrown by a tool's execute is the library's choice: it hands the
\* error to the model as a tool error and the session goes on
ToolCallRejected(h) ==
    /\ pc[h] = "extract"
    /\ steps[h] < stepLimit
    /\ ~RagSelected(selectedRag)
    /\ steps' = [steps EXCEPT ![h] = @ + 1]
    /\ failed' = [failed EXCEPT ![h] = @ \cup {"target"}]
    /\ UNCHANGED <<shared, pc, inbound, allFiles, accumulatedKnowledge,
                   iteration, userQuery, currentSearchQuery, completeResponse,
                   parts, toolResult, returned, sent, extractorInputs,
                   extractorOutputs, decisions, calls, loopHistory, prompts,
                   turnBase, outcome>>

\* ... or it rethrows, and the catch of onMessage ends the turn
ToolCallThrows(h) ==
    /\ pc[h] = "extract"
    /\ steps[h] < stepLimit
    /\ ~RagSelected(selectedRag)
    /\ Abort(h, "target")
    /\ UNCHANGED <<shared, locals, extractorInputs, extractorOutputs,
                   decisions, calls, loopHistory, prompts, turnBase>>

\* the autorag search resolved
SearchDone(h, data) ==
    /\ pc[h] \in {"search", "resolve"}
    /\ allFiles' = [allFiles EXCEPT ![h] =
                      IF data = <<>> THEN @ ELSE CollectFiles(@, FormatResults(data))]
    /\ toolResult' = [toolResult EXCEPT ![h] = SearchPayload(data)]
    /\ returned' = [returned EXCEPT ![h] = Append(@, SearchPayload(data))]
    /\ calls' = [calls EXCEPT ![h].empty = IF data = <<>> THEN @ + 1 ELSE @]
    /\ pc' = [pc EXCEPT ![h] = IF InFlight(h) > 1 THEN "resolve" ELSE "extract"]
    /\ UNCHANGED <<shared, inbound, accumulatedKnowledge, iteration, userQuery,
                   currentSearchQuery, steps, completeResponse, parts, sent,
                   extractorInputs, extractorOutputs, decisions, failed,
                   loopHistory, prompts, turnBase, outcome>>

\* the rejection of the search escaping performSearch
SearchFailThrows(h) ==
    /\ pc[h] \in {"search", "resolve"}
    /\ calls' = [calls EXCEPT ![h].rejected = @ + 1]
    /\ Abort(h, "search")
    /\ UNCHANGED <<shared, locals, extractorInputs, extractorOutputs,
                   decisions, loopHistory, prompts, turnBase>>

\* the autorag search rejected: caught, a failure payload goes to the model
SearchFail(h) ==
    /\ pc[h] \in {"search", "resolve"}
    /\ \E msg \in SearchErrors :
          /\ toolResult' = [toolResult EXCEPT ![h] = FailurePayload(msg)]
          /\ returned' = [returned EXCEPT ![h] = Append(@, FailurePayload(msg))]
    /\ failed' = [failed EXCEPT ![h] = @ \cup {"search"}]
    /\ calls' = [calls EXCEPT ![h].rejected = @ + 1]
    /\ pc' = [pc EXCEPT ![h] = IF InFlight(h) > 1 THEN "resolve" ELSE "extract"]
    /\ UNCHANGED <<shared, inbound, allFiles, accumulatedKnowledge, iteration,
                   userQuery, currentSearchQuery, steps, completeResponse,
                   parts, sent, extractorInputs, extractorOutputs, decisions,
                   loopHistory, prompts, turnBase, outcome>>

\* the new entry put in front of the list
ExtractDoneUnshift(h, text) ==
    /\ pc[h] = "extract"
    /\ extractorOutputs' = [extractorOutputs EXCEPT ![h] = Append(@, text)]
    /\ IF HasKnowledge(text)
       THEN /\ accumulatedKnowledge' =
                  [accumulatedKnowledge EXCEPT ![h] = <<text>> \o @]
            /\ calls' = [calls EXCEPT ![h].evaluate = @ + 1]
            /\ pc' = [pc EXCEPT ![h] = "evaluate"]
            /\ prompts' = [prompts EXCEPT ![h] =
                  Append(@, EvaluatorPrompt(userQuery[h], currentSearchQuery[h],
                                            accumulatedKnowledge'[h]))]
            /\ UNCHANGED <<completeResponse, parts>>
       ELSE /\ StartSynthesis(h)
            /\ UNCHANGED accumulatedKnowledge
    /\ UNCHANGED <<shared, inbound, allFiles, iteration, userQuery,
                   currentSearchQuery, steps, toolResult, returned, sent,
                   extractorInputs, decisions, failed, loopHistory, turnBase,
                   outcome>>

\* the evaluator asked whether or not the extraction produced knowledge
ExtractDoneAlwaysEvaluates(h, text) ==
    /\ pc[h] = "extract"
    /\ extractorOutputs' = [extractorOutputs EXCEPT ![h] = Append(@, text)]
    /\ accumulatedKnowledge' =
          [accumulatedKnowledge EXCEPT ![h] =
              IF HasKnowledge(text) THEN Append(@, text) ELSE @]
    /\ calls' = [calls EXCEPT ![h].evaluate = @ + 1]
    /\ pc' = [pc EXCEPT ![h] = "evaluate"]
    /\ prompts' = [prompts EXCEPT ![h] =
          Append(@, EvaluatorPrompt(userQuery[h], currentSearchQuery[h],
                                    accumulatedKnowledge'[h]))]
    /\ UNCHANGED <<shared, inbound, allFiles, iteration, userQuery,
                   currentSearchQuery, steps, completeResponse, parts,
                   toolResult, returned, sent, extractorInputs, decisions,
                   failed, loopHistory, turnBase, outcome>>

\* the break on empty knowledge taken as a return: the turn ends with no answer
ExtractDoneNoAnswer(h, text) ==
    /\ pc[h] = "extract"
    /\ extractorOutputs' = [extractorOutputs EXCEPT ![h] = Append(@, text)]
    /\ IF HasKnowledge(text)
       THEN /\ accumulatedKnowledge' =
                  [accumulatedKnowledge EXCEPT ![h] = Append(@, text)]
            /\ calls' = [calls EXCEPT ![h].evaluate = @ + 1]
            /\ pc' = [pc EXCEPT ![h] = "evaluate"]
            /\ prompts' = [prompts EXCEPT ![h] =
                  Append(@, EvaluatorPrompt(userQuery[h], currentSearchQuery[h],
                                            accumulatedKnowledge'[h]))]
       ELSE /\ pc' = [pc EXCEPT ![h] = "put2"]
            /\ UNCHANGED <<accumulatedKnowledge, calls, prompts>>
    /\ UNCHANGED <<shared, inbound, allFiles, iteration, userQuery,
                   currentSearchQuery, steps, completeResponse, parts,
                   toolResult, returned, sent, extractorInputs, decisions,
                   failed, loopHistory, turnBase, outcome>>

\* the extractor's generateText resolved with its text
ExtractDone(h, text) ==
    /\ pc[h] = "extract"
    /\ extractorOutputs' = [extractorOutputs EXCEPT ![h] = Append(@, text)]
    /\ IF HasKnowledge(text)
       THEN /\ accumulatedKnowledge' =
                  [accumulatedKnowledge EXCEPT ![h] = Append(@, text)]
            /\ calls' = [calls EXCEPT ![h].evaluate = @ + 1]
            /\ pc' = [pc EXCEPT ![h] = "evaluate"]
            /\ prompts' = [prompts EXCEPT ![h] =
                  Append(@, EvaluatorPrompt(userQuery[h], currentSearchQuery[h],
                                            accumulatedKnowledge'[h]))]
            /\ UNCHANGED <<completeResponse, parts>>
       ELSE /\ StartSynthesis(h)
            /\ UNCHANGED accumulatedKnowledge
    /\ UNCHANGED <<shared, inbound, allFiles, iteration, userQuery,
                   currentSearchQuery, steps, toolResult, returned, sent,
                   extractorInputs, decisions, failed, loopHistory, turnBase,
                   outcome>>

\* the extractor's generateText threw
ExtractFail(h) ==
    /\ pc[h] = "extract"
    /\ Abort(h, "extract")
    /\ UNCHANGED <<shared, locals, extractorInputs, extractorOutputs,
                   decisions, calls, loopHistory, prompts, turnBase>>

(***************************************************************************)
(* The evaluator: generateObject, then the stopping conditions.            *)
(***************************************************************************)
EvaluateDone(h, d) ==
    /\ pc[h] = "evaluate"
    /\ decisions' = [decisions EXCEPT ![h] = Append(@, d)]
    /\ IF StopCondition(d, iteration[h])
       THEN /\ StartSynthesis(h)
            /\ UNCHANGED <<iteration, currentSearchQuery, steps,
                           extractorInputs>>
       ELSE IF HasNextQuery(d)
       THEN /\ LoopEntry(h, iteration[h], AdoptedQuery(d, currentSearchQuery[h]))
            /\ UNCHANGED <<completeResponse, parts, calls, prompts>>
       ELSE /\ StartSynthesis(h)
            /\ UNCHANGED <<iteration, currentSearchQuery, steps,
                           extractorInputs>>
    /\ UNCHANGED <<shared, inbound, allFiles, accumulatedKnowledge, userQuery,
                   toolResult, returned, sent, extractorOutputs, failed,
                   loopHistory, turnBase, outcome>>

\* the evaluator's failure caught inside the loop, which goes on to the answer
EvaluateFailContained(h) ==
    /\ pc[h] = "evaluate"
    /\ failed' = [failed EXCEPT ![h] = @ \cup {"evaluate"}]
    /\ StartSynthesis(h)
    /\ UNCHANGED <<shared, inbound, allFiles, accumulatedKnowledge, iteration,
                   userQuery, currentSearchQuery, steps, toolResult, returned,
                   sent, extractorInputs, extractorOutputs, decisions,
                   loopHistory, turnBase, outcome>>

\* generateObject threw (its output did not match the schema, or the call failed)
EvaluateFail(h) ==
    /\ pc[h] = "evaluate"
    /\ Abort(h, "evaluate")
    /\ UNCHANGED <<shared, locals, extractorInputs, extractorOutputs,
                   decisions, calls, loopHistory, prompts, turnBase>>

(***************************************************************************)
(* The synthesizer's stream and the end of the turn.                       *)
(***************************************************************************)
\* the fragment put in front of the text collected so far
StreamTextDeltaPrepend(h, text) ==
    /\ pc[h] = "stream"
    /\ parts[h] < MaxParts
    /\ parts' = [parts EXCEPT ![h] = @ + 1]
    /\ completeResponse' = [completeResponse EXCEPT ![h] = text \o @]
    /\ sent' = [sent EXCEPT ![h] = Append(@, Event("text-delta", <<text>>))]
    /\ UNCHANGED <<shared, pc, inbound, allFiles, accumulatedKnowledge,
                   iteration, userQuery, currentSearchQuery, steps, toolResult,
                   returned, extractorInputs, extractorOutputs, decisions,
                   calls, failed, loopHistory, prompts, turnBase, outcome>>

\* a text-delta part of the stream
StreamTextDelta(h, text) ==
    /\ pc[h] = "stream"
    /\ parts[h] < MaxParts
    /\ parts' = [parts EXCEPT ![h] = @ + 1]
    /\ completeResponse' = [completeResponse EXCEPT ![h] = @ \o text]
    /\ sent' = [sent EXCEPT ![h] = Append(@, Event("text-delta", <<text>>))]
    /\ UNCHANGED <<shared, pc, inbound, allFiles, accumulatedKnowledge,
                   iteration, userQuery, currentSearchQuery, steps, toolResult,
                   returned, extractorInputs, extractorOutputs, decisions,
                   calls, failed, loopHistory, prompts, turnBase, outcome>>

\* the stream's failure thrown out of the loop that consumes it
StreamErrorThrows(h) ==
    /\ pc[h] = "stream"
    /\ parts[h] < MaxParts
    /\ Abort(h, "stream")
    /\ UNCHANGED <<shared, locals, extractorInputs, extractorOutputs,
                   decisions, calls, loopHistory, prompts, turnBase>>

\* an error part of the stream: reported, and the loop goes on consuming
StreamError(h) ==
    /\ pc[h] = "stream"
    /\ parts[h] < MaxParts
    /\ parts' = [parts EXCEPT ![h] = @ + 1]
    /\ failed' = [failed EXCEPT ![h] = @ \cup {"stream"}]
    /\ sent' = [sent EXCEPT ![h] = Append(@, Event("error", <<>>))]
    /\ UNCHANGED <<shared, pc, inbound, allFiles, accumulatedKnowledge,
                   iteration, userQuery, currentSearchQuery, steps,
                   completeResponse, toolResult, returned, extractorInputs,
                   extractorOutputs, decisions, calls, loopHistory, prompts,
                   turnBase, outcome>>

\* the answer appended to the history as the loop read it at its start, and
\* that written back
StreamEndSnapshot(h) ==
    /\ pc[h] = "stream"
    /\ messages' = IF Trim(completeResponse[h]) # <<>>
                   THEN Append(loopHistory[h],
                               [role |-> "assistant",
                                content |-> completeResponse[h]])
                   ELSE loopHistory[h]
    /\ storage' = [has |-> TRUE, value |-> messages']
    /\ pc' = [pc EXCEPT ![h] = "put2"]
    /\ UNCHANGED <<greeting, connected, selectedRag, totalSearches, turns,
                   locals, history>>

\* the end of the stream goes unnoticed: the handler keeps waiting for a part
StreamEndUnnoticed(h) ==
    /\ pc[h] = "stream"
    /\ pc' = [pc EXCEPT ![h] = "wait"]
    /\ UNCHANGED <<shared, locals, history>>

\* the answer joins the history and persistMessages is not called
StreamEndNoPersist(h) ==
    /\ pc[h] = "stream"
    /\ messages' = IF Trim(completeResponse[h]) # <<>>
                   THEN Append(messages,
                               [role |-> "assistant", content |-> completeResponse[h]])
                   ELSE messages
    /\ pc' = [pc EXCEPT ![h] = "put2"]
    /\ UNCHANGED <<greeting, connected, storage, selectedRag, totalSearches,
                   turns, locals, history>>

\* the stream ended: the answer joins the history, the files are returned and
\* processAndStreamResponse calls persistMessages
StreamEnd(h) ==
    /\ pc[h] = "stream"
    /\ messages' = IF Trim(completeResponse[h]) # <<>>
                   THEN Append(messages,
                               [role |-> "assistant", content |-> completeResponse[h]])
                   ELSE messages
    /\ storage' = [has |-> TRUE, value |-> messages']
    /\ pc' = [pc EXCEPT ![h] = "put2"]
    /\ UNCHANGED <<greeting, connected, selectedRag, totalSearches, turns,
                   locals, history>>

\* finish sent before the files
AfterPut2FinishFirst(h) ==
    /\ pc[h] = "put2"
    /\ sent' = [sent EXCEPT ![h] =
                  Append(@, Event("finish", <<>>))
                     \o (IF Len(allFiles[h]) > 0
                         THEN <<Event("files", allFiles[h])>>
                         ELSE <<>>)]
    /\ outcome' = [outcome EXCEPT ![h] = "finished"]
    /\ pc' = [pc EXCEPT ![h] = "idle"]
    /\ UNCHANGED <<shared, locals, extractorInputs, extractorOutputs, decisions,
                   calls, failed, loopHistory, prompts, turnBase>>

\* the files event sent whether or not there are files
AfterPut2Always(h) ==
    /\ pc[h] = "put2"
    /\ sent' = [sent EXCEPT ![h] =
                  Append(@, Event("files", allFiles[h]))
                      \o <<Event("finish", <<>>)>>]
    /\ outcome' = [outcome EXCEPT ![h] = "finished"]
    /\ pc' = [pc EXCEPT ![h] = "idle"]
    /\ UNCHANGED <<shared, locals, extractorInputs, extractorOutputs,
                   decisions, calls, failed, loopHistory, prompts, turnBase>>

\* put resolved: the files, if any, then finish
AfterPut2(h) ==
    /\ pc[h] = "put2"
    /\ sent' = [sent EXCEPT ![h] =
                  (IF Len(allFiles[h]) > 0
                   THEN Append(@, Event("files", allFiles[h]))
                   ELSE @) \o <<Event("finish", <<>>)>>]
    /\ outcome' = [outcome EXCEPT ![h] = "finished"]
    /\ pc' = [pc EXCEPT ![h] = "idle"]
    /\ UNCHANGED <<shared, locals, extractorInputs, extractorOutputs,
                   decisions, calls, failed, loopHistory, prompts, turnBase>>

(***************************************************************************)
(* Specification: one handler at a time.                                   *)
(***************************************************************************)
Step(h) ==
    \/ \E rag \in RagNames : turns < MaxTurns /\ OnMessageIgnored(h, rag)
    \/ turns < MaxTurns /\ OnMessageMalformed(h)
    \/ \E rag \in RagNames, msgs \in InboundMessages :
          turns < MaxTurns /\ OnMessage(h, rag, msgs)
    \/ AfterGet(h)
    \/ AfterPut1(h)
    \/ \E text \in RewriteTexts : RewriteDone(h, text)
    \/ RewriteFail(h)
    \/ \E query \in ToolQueries :
          calls[h].search < MaxSearches /\ ToolCall(h, query)
    \/ ToolCallRejected(h)
    \/ ToolCallThrows(h)
    \/ \E data \in SearchData : SearchDone(h, data)
    \/ SearchFail(h)
    \/ \E text \in ExtractorTexts : ExtractDone(h, text)
    \/ ExtractFail(h)
    \/ \E d \in Decisions : EvaluateDone(h, d)
    \/ EvaluateFail(h)
    \/ \E text \in Fragments : StreamTextDelta(h, text)
    \/ StreamError(h)
    \/ StreamEnd(h)
    \/ AfterPut2(h)

Next == \E h \in Sequential : Step(h)

Spec == Init /\ [][Next]_vars

(***************************************************************************)
(* Specification: one handler at a time, every awaited call of a turn in   *)
(* progress eventually settles.                                            *)
(***************************************************************************)
\* the steps of a handler that has been entered and has not returned: each
\* is the settling, one way or the other, of the call it awaits
Continue(h) == pc[h] # "idle" /\ Step(h)

FairSpec == Spec /\ \A h \in Sequential : WF_vars(Continue(h))

(***************************************************************************)
(* Specification: several turns of one session, one handler at a time,     *)
(* with fewer inputs per call.                                             *)
(***************************************************************************)
MaxSessionTurns == MaxTurns + 1

SessionMessages == { <<>>, << Msg("user", <<"a">>) >> }

SessionRewrites == { <<"r">> }

SessionTexts == { <<>>, <<"k">> }

SessionDecisions ==
    { [isKnowledgeEnough |-> TRUE, nextSearchQuery |-> Undefined],
      [isKnowledgeEnough |-> FALSE, nextSearchQuery |-> <<"n">>] }

SessionFragments == { <<"t">> }

SessionStep(h) ==
    \/ turns < MaxSessionTurns /\ OnMessageMalformed(h)
    \/ \E msgs \in SessionMessages :
          turns < MaxSessionTurns /\ OnMessage(h, "rag1", msgs)
    \/ AfterGet(h)
    \/ AfterPut1(h)
    \/ \E text \in SessionRewrites : RewriteDone(h, text)
    \/ RewriteFail(h)
    \/ \E query \in ToolQueries :
          calls[h].search < MaxSearches /\ ToolCall(h, query)
    \/ \E data \in SearchData : SearchDone(h, data)
    \/ SearchFail(h)
    \/ \E text \in SessionTexts : ExtractDone(h, text)
    \/ ExtractFail(h)
    \/ \E d \in SessionDecisions : EvaluateDone(h, d)
    \/ EvaluateFail(h)
    \/ \E text \in SessionFragments : StreamTextDelta(h, text)
    \/ StreamError(h)
    \/ StreamEnd(h)
    \/ AfterPut2(h)

SessionNext == \E h \in Sequential : SessionStep(h)

SessionSpec == Init /\ [][SessionNext]_vars

(***************************************************************************)
(* Specification: the turns of one session with two different knowledge    *)
(* texts, so that the order of the entries of the list shows, and one      *)
(* search result.                                                          *)
(***************************************************************************)
KnowledgeTexts == { <<>>, <<"k">>, <<"j">> }

KnowledgeData == { << [filename |-> <<"f">>, file_id |-> 1] >> }

KnowledgeStep(h) ==
    \/ \E msgs \in SessionMessages :
          turns < MaxSessionTurns /\ OnMessage(h, "rag1", msgs)
    \/ AfterGet(h)
    \/ AfterPut1(h)
    \/ \E text \in SessionRewrites : RewriteDone(h, text)
    \/ RewriteFail(h)
    \/ \E query \in ToolQueries :
          calls[h].search < MaxSearches /\ ToolCall(h, query)
    \/ \E data \in KnowledgeData : SearchDone(h, data)
    \/ \E text \in KnowledgeTexts : ExtractDone(h, text)
    \/ ExtractFail(h)
    \/ \E d \in SessionDecisions : EvaluateDone(h, d)
    \/ EvaluateFail(h)
    \/ \E text \in SessionFragments : StreamTextDelta(h, text)
    \/ StreamEnd(h)
    \/ AfterPut2(h)

KnowledgeNext == \E h \in Sequential : KnowledgeStep(h)

KnowledgeSpec == Init /\ [][KnowledgeNext]_vars

(***************************************************************************)
(* Specification: one turn in which the extractor sessions call the tool   *)
(* as often as generateText lets them.                                     *)
(***************************************************************************)
ExtractorStep(h) ==
    \/ \E msgs \in SessionMessages : turns < MaxTurns /\ OnMessage(h, "rag1", msgs)
    \/ AfterGet(h)
    \/ AfterPut1(h)
    \/ \E query \in ToolQueries : ToolCall(h, query)
    \/ \E data \in KnowledgeData : SearchDone(h, data)
    \/ \E text \in SessionTexts : ExtractDone(h, text)
    \/ \E d \in SessionDecisions : EvaluateDone(h, d)
    \/ \E text \in SessionFragments : StreamTextDelta(h, text)
    \/ StreamEnd(h)
    \/ AfterPut2(h)

ExtractorNext == \E h \in Sequential : ExtractorStep(h)

ExtractorSpec == Init /\ [][ExtractorNext]_vars

(***************************************************************************)
(* Specification: one turn whose extractor sessions may put several tool   *)
(* calls in one generation step.                                           *)
(***************************************************************************)
ParallelStep(h) ==
    \/ \E msgs \in SessionMessages : turns < MaxTurns /\ OnMessage(h, "rag1", msgs)
    \/ AfterGet(h)
    \/ AfterPut1(h)
    \/ \E query \in ToolQueries :
          calls[h].search < MaxSearches /\ ToolCall(h, query)
    \/ \E query \in ToolQueries :
          calls[h].search < MaxSearches + 1 /\ ToolCallParallel(h, query)
    \/ \E data \in SearchData : SearchDone(h, data)
    \/ SearchFail(h)
    \/ \E text \in SessionTexts : ExtractDone(h, text)
    \/ \E d \in SessionDecisions : EvaluateDone(h, d)
    \/ \E text \in SessionFragments : StreamTextDelta(h, text)
    \/ StreamEnd(h)
    \/ AfterPut2(h)

ParallelNext == \E h \in Sequential : ParallelStep(h)

ParallelSpec == Init /\ [][ParallelNext]_vars

(***************************************************************************)
(* Specification: two handlers of one session.  A handler is suspended at  *)
(* each of its awaits, and the other may be started or resumed there;      *)
(* clients connect at any time.                                            *)
(***************************************************************************)
ConcurrentMessages ==
    { <<>>, << Msg("user", <<"a">>) >>, << Msg("user", <<"b">>) >> }

ConcurrentDecisions ==
    { [isKnowledgeEnough |-> TRUE, nextSearchQuery |-> Undefined] }

ConcurrentStep(h) ==
    \/ \E msgs \in ConcurrentMessages :
          turns < MaxSessionTurns /\ OnMessage(h, "rag1", msgs)
    \/ AfterGet(h)
    \/ AfterPut1(h)
    \/ \E text \in SessionRewrites : RewriteDone(h, text)
    \/ \E query \in ToolQueries :
          calls[h].search < MaxSearches - 1 /\ ToolCall(h, query)
    \/ \E data \in KnowledgeData : SearchDone(h, data)
    \/ \E text \in SessionTexts : ExtractDone(h, text)
    \/ ExtractFail(h)
    \/ \E d \in ConcurrentDecisions : EvaluateDone(h, d)
    \/ \E text \in SessionFragments :
          parts[h] < MaxParts - 1 /\ StreamTextDelta(h, text)
    \/ StreamEnd(h)
    \/ AfterPut2(h)

ConcurrentNext ==
    \/ \E h \in Handlers : ConcurrentStep(h)
    \/ OnConnect

ConcurrentSpec == Init /\ [][ConcurrentNext]_vars

(***************************************************************************)
(* Specification: the turns of one handler, and messages that only select  *)
(* another search target, handled while it is suspended or idle.           *)
(***************************************************************************)
OtherTargets == { "rag2" }

TargetStep(h) ==
    \/ \E msgs \in SessionMessages :
          turns < MaxSessionTurns /\ OnMessage(h, "rag1", msgs)
    \/ AfterGet(h)
    \/ AfterPut1(h)
    \/ \E text \in SessionRewrites : RewriteDone(h, text)
    \/ \E query \in ToolQueries :
          calls[h].search < MaxSearches /\ ToolCall(h, query)
    \/ \E data \in KnowledgeData : SearchDone(h, data)
    \/ \E text \in SessionTexts : ExtractDone(h, text)
    \/ \E d \in SessionDecisions : EvaluateDone(h, d)
    \/ \E text \in SessionFragments : StreamTextDelta(h, text)
    \/ StreamEnd(h)
    \/ AfterPut2(h)

TargetNext ==
    \/ \E h \in Sequential : TargetStep(h)
    \/ \E h \in Handlers \ Sequential, rag \in OtherTargets :
          turns < MaxSessionTurns /\ OnMessageIgnored(h, rag)

TargetSpec == Init /\ [][TargetNext]_vars

(***************************************************************************)
(* Properties of the loop controller.                                      *)
(***************************************************************************)
\* the loop of handler h has been left for the synthesizer
LoopStopped(h) ==
    /\ calls[h].synth = 1
    /\ pc[h] \in {"stream", "put2"} \/ outcome[h] = "finished"

\* the current utterance: the last message of the history the loop read
CurrentUtterance(h) == loopHistory[h][Len(loopHistory[h])].content

\* some user message precedes the current one in the history the loop read
HasPriorUser(h) ==
    \E i \in 1..(Len(loopHistory[h]) - 1) : loopHistory[h][i].role = "user"

EventsOf(h, t) == { i \in 1..Len(sent[h]) : sent[h][i].type = t }

\* C1: the iteration counter is 0 before the first entry to the loop body, is
\* one more after every entry (so it counts the extractor invocations of the
\* turn), and neither ever exceeds maxIterations = 5.
C1_IterationBounded ==
    \A h \in Handlers :
        /\ iteration[h] = Len(extractorInputs[h])
        /\ iteration[h] \in 0..maxIterations
        /\ Len(extractorInputs[h]) <= 5
        /\ Len(extractorOutputs[h]) <= Len(extractorInputs[h])

C1_Witness ==
    \E h \in Handlers :
        /\ iteration[h] = maxIterations
        /\ Len(decisions[h]) = maxIterations
        /\ ~decisions[h][maxIterations].isKnowledgeEnough
        /\ decisions[h][maxIterations].nextSearchQuery = <<"n">>
        /\ outcome[h] = "finished"

\* C2: a decision with isKnowledgeEnough = TRUE returned at iteration k < 5 is
\* the last of the turn: exactly k extractor and k evaluator invocations were
\* made and the loop has gone to the synthesizer, whatever nextSearchQuery the
\* decision carries.
C2_SufficientStops ==
    \A h \in Handlers : \A k \in 1..Len(decisions[h]) :
        (k < maxIterations /\ decisions[h][k].isKnowledgeEnough)
        => /\ Len(decisions[h]) = k
           /\ iteration[h] = k
           /\ Len(extractorInputs[h]) = k
           /\ Len(extractorOutputs[h]) = k
           /\ calls[h].evaluate = k
           /\ LoopStopped(h)

C2_Witness ==
    \E h \in Handlers :
        /\ Len(decisions[h]) = 2
        /\ decisions[h][2] = [isKnowledgeEnough |-> TRUE, nextSearchQuery |-> <<"n">>]
        /\ ~decisions[h][1].isKnowledgeEnough
        /\ iteration[h] = 2
        /\ outcome[h] = "finished"

\* every extractor session of the turn returned knowledge and no decision of
\* the turn was sufficient
NeverSufficient(h) ==
    /\ \A i \in 1..Len(extractorOutputs[h]) : Trim(extractorOutputs[h][i]) # <<>>
    /\ \A k \in 1..Len(decisions[h]) : ~decisions[h][k].isKnowledgeEnough

\* the loop ran exactly 5 iterations and the 5th decision's query was not adopted
RanToTheBound(h) ==
    /\ iteration[h] = maxIterations
    /\ Len(extractorInputs[h]) = maxIterations
    /\ Len(decisions[h]) = maxIterations
    /\ calls[h].evaluate = maxIterations
    /\ currentSearchQuery[h] = extractorInputs[h][maxIterations]

\* C3 as stated: when the loop has stopped after a turn in which the extractor
\* always returned knowledge and the evaluator never returned sufficient and
\* always supplied a nextSearchQuery (any string), it ran exactly 5 iterations.
C3_Original ==
    \A h \in Handlers :
        ( /\ LoopStopped(h)
          /\ NeverSufficient(h)
          /\ \A k \in 1..Len(decisions[h]) :
                 decisions[h][k].nextSearchQuery # Undefined )
        => RanToTheBound(h)

\* C3, amended: the same with every nextSearchQuery a non-empty string; and
\* after a 5th decision, whatever it says, the loop is over.
C3_ForcedStop ==
    \A h \in Handlers :
        /\ ( /\ LoopStopped(h)
             /\ NeverSufficient(h)
             /\ \A k \in 1..Len(decisions[h]) :
                    /\ decisions[h][k].nextSearchQuery # Undefined
                    /\ decisions[h][k].nextSearchQuery # <<>> )
           => RanToTheBound(h)
        /\ Len(decisions[h]) >= maxIterations
           => /\ LoopStopped(h)
              /\ Len(extractorInputs[h]) = maxIterations

C3_Witness ==
    \E h \in Handlers :
        /\ LoopStopped(h)
        /\ NeverSufficient(h)
        /\ Len(decisions[h]) = maxIterations
        /\ \A k \in 1..maxIterations : decisions[h][k].nextSearchQuery = <<"n">>
        /\ outcome[h] = "finished"

\* C4: an extractor text that is empty after trimming ends the loop at once:
\* it is the last extractor session of the turn, no decision is asked for in
\* that iteration, no knowledge entry is added, and the synthesizer is next.
C4_EmptyKnowledgeExits ==
    \A h \in Handlers : \A i \in 1..Len(extractorOutputs[h]) :
        Trim(extractorOutputs[h][i]) = <<>>
        => /\ Len(extractorOutputs[h]) = i
           /\ Len(extractorInputs[h]) = i
           /\ iteration[h] = i
           /\ calls[h].evaluate = i - 1
           /\ Len(decisions[h]) = i - 1
           /\ Len(accumulatedKnowledge[h]) = i - 1
           /\ LoopStopped(h)

C4_Witness ==
    \E h \in Handlers :
        /\ Len(extractorOutputs[h]) = 2
        /\ extractorOutputs[h][2] = <<" ">>
        /\ accumulatedKnowledge[h] = << <<"k">> >>
        /\ outcome[h] = "finished"

\* the k-th decision of handler h asks for another iteration with query q
Continues(h, k, q) ==
    /\ Len(extractorInputs[h]) > k
    /\ extractorInputs[h][k + 1] = q
    /\ Len(decisions[h]) = k => /\ currentSearchQuery[h] = q
                                /\ iteration[h] = k + 1

\* C5 as stated: a decision at iteration k < 5 that is not sufficient and
\* carries a nextSearchQuery (any string) makes the loop go on, and
\* extractor session k + 1 is given exactly that query.
C5_Original ==
    \A h \in Handlers : \A k \in 1..Len(decisions[h]) :
        ( /\ k < maxIterations
          /\ ~decisions[h][k].isKnowledgeEnough
          /\ decisions[h][k].nextSearchQuery # Undefined )
        => Continues(h, k, decisions[h][k].nextSearchQuery)

\* C5, amended: the same for a nextSearchQuery that is a non-empty string.
C5_NextQueryAdopted ==
    \A h \in Handlers : \A k \in 1..Len(decisions[h]) :
        ( /\ k < maxIterations
          /\ ~decisions[h][k].isKnowledgeEnough
          /\ decisions[h][k].nextSearchQuery # Undefined
          /\ decisions[h][k].nextSearchQuery # <<>> )
        => Continues(h, k, decisions[h][k].nextSearchQuery)

C5_Witness ==
    \E h \in Handlers :
        /\ Len(decisions[h]) = 1
        /\ decisions[h][1] = [isKnowledgeEnough |-> FALSE, nextSearchQuery |-> <<"n">>]
        /\ extractorInputs[h] = << <<"a">>, <<"n">> >>
        /\ pc[h] = "extract"

\* C6: a decision at iteration k < 5 that is not sufficient and carries no
\* nextSearchQuery is the last of the turn: the loop has gone to the
\* synthesizer after k extractor and k evaluator invocations.
C6_NoNextQueryStops ==
    \A h \in Handlers : \A k \in 1..Len(decisions[h]) :
        ( /\ k < maxIterations
          /\ ~decisions[h][k].isKnowledgeEnough
          /\ decisions[h][k].nextSearchQuery = Undefined )
        => /\ Len(decisions[h]) = k
           /\ Len(extractorInputs[h]) = k
           /\ iteration[h] = k
           /\ calls[h].evaluate = k
           /\ LoopStopped(h)

C6_Witness ==
    \E h \in Handlers :
        /\ Len(decisions[h]) = 2
        /\ decisions[h][2] = [isKnowledgeEnough |-> FALSE, nextSearchQuery |-> Undefined]
        /\ outcome[h] = "finished"

\* C7: when no user message precedes the current one in the history the loop
\* read, no rewriting call is made, no query-rewrite event is sent, and the
\* first extractor session is given the current utterance unchanged.
C7_NoHistoryIdentity ==
    \A h \in Handlers :
        (loopHistory[h] # <<>> /\ ~HasPriorUser(h))
        => /\ calls[h].rewrite = 0
           /\ EventsOf(h, "query-rewrite") = {}
           /\ extractorInputs[h] # <<>>
           /\ extractorInputs[h][1] = CurrentUtterance(h)
           /\ userQuery[h] = CurrentUtterance(h)

C7_Witness ==
    \E h \in Handlers :
        /\ Len(loopHistory[h]) = 2
        /\ loopHistory[h][1].role = "assistant"
        /\ extractorInputs[h] = << <<" ", "b">> >>
        /\ outcome[h] = "finished"

\* C8: after the rewriting call has failed the loop has entered iteration 1
\* with the current utterance unchanged, no error event is sent for it, and
\* the turn is aborted only by a later failure.
C8_RewriteFailureFallsBack ==
    \A h \in Handlers :
        "rewrite" \in failed[h]
        => /\ extractorInputs[h] # <<>>
           /\ extractorInputs[h][1] = CurrentUtterance(h)
           /\ iteration[h] >= 1
           /\ outcome[h] = "aborted" => failed[h] \cap {"extract", "evaluate", "target"} # {}
           /\ failed[h] = {"rewrite"} => /\ EventsOf(h, "error") = {}
                                         /\ outcome[h] # "aborted"

C8_Witness ==
    \E h \in Handlers :
        /\ "rewrite" \in failed[h]
        /\ extractorInputs[h][1] = <<" ", "b">>
        /\ iteration[h] = 2
        /\ outcome[h] = "finished"

\* C9 as stated: in a turn whose history holds an earlier user message, the
\* rewriting call is made exactly once and every search-start event is
\* preceded by the query-rewrite event of the turn.
C9_Original ==
    \A h \in Handlers : \A j \in EventsOf(h, "search-start") :
        HasPriorUser(h)
        => /\ calls[h].rewrite = 1
           /\ \E i \in EventsOf(h, "query-rewrite") : i < j

\* C9, amended: the rewriting call is made exactly once and is over before the
\* first search; when it succeeded its one query-rewrite event, carrying the
\* utterance and the query given to the first extractor session, precedes every
\* search-start event; when it failed there is no query-rewrite event.
C9_RewriteBeforeSearch ==
    \A h \in Handlers :
        /\ Cardinality(EventsOf(h, "query-rewrite")) <= 1
        /\ calls[h].rewrite <= 1
        /\ \A i \in EventsOf(h, "query-rewrite"), j \in EventsOf(h, "search-start") :
               i < j
        /\ (HasPriorUser(h) /\ extractorInputs[h] # <<>>)
           => /\ calls[h].rewrite = 1
              /\ IF "rewrite" \in failed[h]
                 THEN EventsOf(h, "query-rewrite") = {}
                 ELSE \E i \in EventsOf(h, "query-rewrite") :
                          /\ i = 1
                          /\ sent[h][i] = Event("query-rewrite",
                                                <<CurrentUtterance(h),
                                                  extractorInputs[h][1]>>)

C9_Witness ==
    \E h \in Handlers :
        /\ HasPriorUser(h)
        /\ Len(sent[h]) >= 2
        /\ sent[h][1] = Event("query-rewrite", << <<" ", "b">>, <<"r">> >>)
        /\ sent[h][2].type = "search-start"

\* C10: at every moment the file map of a loop holds at most one entry for a
\* filename.
C10_UniqueFilenames ==
    \A h \in Handlers : \A i, j \in 1..Len(allFiles[h]) :
        allFiles[h][i].filename = allFiles[h][j].filename => i = j

C10_Witness ==
    \E h \in Handlers :
        /\ calls[h].search = 2
        /\ allFiles[h] = << [filename |-> <<"Unknown">>, file_id |-> 1],
                           [filename |-> <<"f">>, file_id |-> 1] >>
        /\ outcome[h] = "finished"

(***************************************************************************)
(* Properties of the file references and of the search tool.               *)
(***************************************************************************)
\* the results of the payloads, in the order the searches returned them
RECURSIVE ResultsOf(_)
ResultsOf(payloads) ==
    IF payloads = <<>> THEN <<>>
    ELSE Head(payloads).results \o ResultsOf(Tail(payloads))

\* every result the searches of handler h's turn returned, in order
Returned(h) == ResultsOf(returned[h])

\* where filename fn occurs among them
Occurrences(h, fn) ==
    { i \in 1..Len(Returned(h)) : Returned(h)[i].filename = fn }

\* the entries of the file lists handler h emitted in this turn
EmittedFiles(h) ==
    UNION { { sent[h][i].data[j] : j \in 1..Len(sent[h][i].data) } :
            i \in EventsOf(h, "files") }

\* C11 as stated: an emitted entry carries the fileId of the first result
\* returned under its filename during the loop execution.
C11_Original ==
    \A h \in Handlers : \A e \in EmittedFiles(h) :
        \A o \in Occurrences(h, e.filename) :
            (\A o2 \in Occurrences(h, e.filename) : o <= o2)
                => e.file_id = Returned(h)[o].file_id

\* C11: when the same filename is returned by more than one search result
\* within one loop execution, the entry emitted at loop end carries the
\* fileId of the last occurrence.
C11_LastOccurrenceWins ==
    \A h \in Handlers : \A e \in EmittedFiles(h) :
        \A o \in Occurrences(h, e.filename) :
            (\A o2 \in Occurrences(h, e.filename) : o2 <= o)
                => e.file_id = Returned(h)[o].file_id

\* a file list was emitted for a filename two searches returned with
\* different fileIds
C11_Witness ==
    \E h \in Handlers : \E e \in EmittedFiles(h) :
        \E o1, o2 \in Occurrences(h, e.filename) :
            /\ o1 < o2
            /\ Returned(h)[o1].file_id # Returned(h)[o2].file_id
            /\ Len(returned[h]) = 2
            /\ returned[h][1].results # <<>>
            /\ returned[h][2].results # <<>>

\* the filenames of the results the searches of handler h's turn returned
ReturnedFilenames(h) ==
    { Returned(h)[i].filename : i \in 1..Len(Returned(h)) }

\* C12: when a turn has finished, the filenames of the file list it emitted
\* are exactly the filenames of the results its own searches returned, in
\* whatever iteration; nothing an earlier turn of the session collected is in
\* the list (no list is emitted when the searches returned no result).
C12_EmittedFilesExact ==
    \A h \in Handlers :
        outcome[h] = "finished"
            => { e.filename : e \in EmittedFiles(h) } = ReturnedFilenames(h)

\* a second turn whose searches, made in two iterations, returned results, has
\* emitted its file list
C12_Witness ==
    \E h \in Handlers :
        /\ turns = 2
        /\ outcome[h] = "finished"
        /\ iteration[h] = 2
        /\ Len(returned[h]) = 2
        /\ returned[h][1].results # <<>>
        /\ returned[h][2].results # <<>>
        /\ EventsOf(h, "files") # {}
        /\ ReturnedFilenames(h) = { <<"f">> }

\* C13: when the search tool is invoked while no search target is selected,
\* the turn ends at that step: one more error notification goes to the caller
\* and the handler returns, so no further search, evaluation or synthesis
\* takes place in that turn.
C13_MissingTargetFatal ==
    [][\A h \in Handlers :
          ("target" \in failed'[h] /\ "target" \notin failed[h])
              => /\ pc'[h] = "idle"
                 /\ outcome'[h] = "aborted"
                 /\ sent'[h] = Append(sent[h], Event("error", <<>>))]_vars

\* C14: a rejected search call does not abort the loop: the tool returns a
\* payload with success = false, the error's message and no results, nothing
\* is sent to the caller, the files collected so far are left as they were,
\* and the extractor session of the same iteration goes on.
C14_SearchFailureContained ==
    [][\A h \in Handlers :
          calls'[h].rejected = calls[h].rejected + 1
              => /\ pc'[h] = "extract"
                 /\ outcome'[h] = outcome[h]
                 /\ sent'[h] = sent[h]
                 /\ iteration'[h] = iteration[h]
                 /\ allFiles'[h] = allFiles[h]
                 /\ Len(returned'[h]) = Len(returned[h]) + 1
                 /\ \A i \in { Len(returned'[h]) } :
                       /\ returned'[h][i].success = FALSE
                       /\ returned'[h][i].message \in SearchErrors
                       /\ returned'[h][i].results = <<>>]_vars

\* a turn in which the first search registered files and the second was
\* rejected went on to its end and emitted the files of the first
C14_Witness ==
    \E h \in Handlers :
        /\ outcome[h] = "finished"
        /\ calls[h].rejected = 1
        /\ Len(returned[h]) = 2
        /\ returned[h][1].results # <<>>
        /\ returned[h][2].success = FALSE
        /\ EventsOf(h, "files") # {}
        /\ EventsOf(h, "error") = {}

(***************************************************************************)
(* Properties of the failure handling.                                     *)
(***************************************************************************)
\* C15: a failed generation call of the extractor or of the synthesizer is
\* contained: the turn it happens in is not aborted (only a missing search
\* target and a malformed evaluation abort a turn).
C15_GenerationFailureContained ==
    \A h \in Handlers :
        ("extract" \in failed[h] \/ "stream" \in failed[h])
            => outcome[h] # "aborted"

\* C16: a search that resolves with no data returns the payload success =
\* true, found = false, count = 0, results = [] and leaves the collected files
\* as they were.
C16_EmptySearchRegistersNothing ==
    [][\A h \in Handlers :
          calls'[h].empty = calls[h].empty + 1
              => /\ allFiles'[h] = allFiles[h]
                 /\ Len(returned'[h]) = Len(returned[h]) + 1
                 /\ \A i \in { Len(returned'[h]) } :
                       /\ returned'[h][i].success = TRUE
                       /\ returned'[h][i].found = FALSE
                       /\ returned'[h][i].count = 0
                       /\ returned'[h][i].results = <<>>]_vars

\* after a search that registered files, a search resolved with no data and
\* the files are still those of the first search
C16_Witness ==
    \E h \in Handlers :
        /\ calls[h].empty = 1
        /\ Len(returned[h]) = 2
        /\ returned[h][1].results # <<>>
        /\ returned[h][2] = NoResultsPayload
        /\ Len(allFiles[h]) = 2

\* C17: once the evaluator's call has failed, the turn is over: the handler
\* has returned, the synthesizer was never called, every extractor session of
\* the turn precedes the failed evaluation, the caller was sent exactly one
\* error event, and no text fragment, file list or finish event.
C17_EvaluatorFailureAborts ==
    \A h \in Handlers :
        "evaluate" \in failed[h]
            => /\ pc[h] = "idle"
               /\ outcome[h] = "aborted"
               /\ calls[h].synth = 0
               /\ Len(extractorInputs[h]) = calls[h].evaluate
               /\ Len(decisions[h]) = calls[h].evaluate - 1
               /\ Cardinality(EventsOf(h, "error")) = 1
               /\ EventsOf(h, "text-delta") = {}
               /\ EventsOf(h, "files") = {}
               /\ EventsOf(h, "finish") = {}

\* the evaluator failed in the second iteration of a turn whose searches had
\* registered files
C17_Witness ==
    \E h \in Handlers :
        /\ "evaluate" \in failed[h]
        /\ iteration[h] = 2
        /\ Len(decisions[h]) = 1
        /\ Len(allFiles[h]) > 0

RECURSIVE FragmentsOf(_)
FragmentsOf(events) ==
    IF events = <<>> THEN <<>>
    ELSE (IF Head(events).type = "text-delta"
          THEN Head(events).data[1] ELSE <<>>) \o FragmentsOf(Tail(events))

\* C19: a finished turn has appended to the history the loop started from
\* exactly one assistant turn, whose content is the concatenation of the text
\* fragments in arrival order, when that concatenation is not empty after
\* trimming, and nothing when it is.
C19_OneAssistantTurn ==
    \A h \in Handlers :
        outcome[h] = "finished"
            => messages =
                  IF Trim(FragmentsOf(sent[h])) # <<>>
                  THEN Append(loopHistory[h],
                              Msg("assistant", FragmentsOf(sent[h])))
                  ELSE loopHistory[h]

\* a finished turn whose two fragments, a blank and a letter, make the
\* assistant turn that ends the history
C19_Witness ==
    \E h \in Handlers :
        /\ outcome[h] = "finished"
        /\ Cardinality(EventsOf(h, "text-delta")) = 2
        /\ FragmentsOf(sent[h]) = <<" ", "t">>
        /\ messages = Append(loopHistory[h], Msg("assistant", <<" ", "t">>))

\* C20: a failure inside the synthesizer's stream does not abort the turn, and
\* once the turn has finished an error event was sent, the text of the stream,
\* when not empty after trimming, is the assistant turn that ends the history,
\* the history is persisted, the collected files, when there are any, were
\* sent, and the finish event is the last thing sent.
C20_StreamFailureFinalizes ==
    \A h \in Handlers :
        "stream" \in failed[h]
            => /\ outcome[h] # "aborted"
               /\ EventsOf(h, "error") # {}
               /\ outcome[h] = "finished"
                    => /\ Trim(FragmentsOf(sent[h])) # <<>>
                            => messages =
                                 Append(loopHistory[h],
                                        Msg("assistant", FragmentsOf(sent[h])))
                       /\ storage = [has |-> TRUE, value |-> messages]
                       /\ Len(allFiles[h]) > 0
                            => \E i \in EventsOf(h, "files") :
                                  /\ i = Len(sent[h]) - 1
                                  /\ sent[h][i].data = allFiles[h]
                       /\ \E i \in EventsOf(h, "finish") : i = Len(sent[h])

\* a turn that had collected files finished after its stream failed behind a
\* text fragment: the fragment is the assistant turn, persisted, and the file
\* list and the finish event were sent
C20_Witness ==
    \E h \in Handlers :
        /\ outcome[h] = "finished"
        /\ "stream" \in failed[h]
        /\ FragmentsOf(sent[h]) = <<"t">>
        /\ \E i \in EventsOf(h, "text-delta"), j \in EventsOf(h, "error") : i < j
        /\ storage.value = Append(loopHistory[h], Msg("assistant", <<"t">>))
        /\ EventsOf(h, "files") # {}

(***************************************************************************)
(* Properties of the turn as a whole.                                      *)
(***************************************************************************)
\* C21 as stated: a finished turn has sent its file list exactly once, also
\* when the list is empty.
C21_Original ==
    \A h \in Handlers :
        outcome[h] = "finished" => Cardinality(EventsOf(h, "files")) = 1

\* C21: the file list is sent only at the end of a turn that finishes, exactly
\* once and right before the finish event when it is not empty, and not at
\* all when it is empty; the list a later loop works with holds nothing of it.
C21_FilesEmittedOnce ==
    \A h \in Handlers :
        /\ outcome[h] # "finished" => EventsOf(h, "files") = {}
        /\ outcome[h] = "finished"
             => /\ Len(allFiles[h]) = 0 => EventsOf(h, "files") = {}
                /\ Len(allFiles[h]) > 0
                     => /\ Cardinality(EventsOf(h, "files")) = 1
                        /\ \A i \in EventsOf(h, "files") :
                              /\ i = Len(sent[h]) - 1
                              /\ sent[h][i].data = allFiles[h]
        /\ pc[h] \in {"rewrite", "extract", "search", "evaluate", "stream", "put2"}
             => { e.filename : e \in { allFiles[h][i] : i \in 1..Len(allFiles[h]) } }
                    = ReturnedFilenames(h)

\* a second turn finished and sent its one file list before the finish event
C21_Witness ==
    \E h \in Handlers :
        /\ turns = 2
        /\ outcome[h] = "finished"
        /\ Len(allFiles[h]) = 2
        /\ Len(sent[h]) >= 2
        /\ \E i \in EventsOf(h, "files") : i = Len(sent[h]) - 1

\* the extractor, evaluator and search invocations made so far in the turn
LoopCalls(h) ==
    <<Len(extractorInputs[h]), Len(extractorOutputs[h]), calls[h].evaluate,
      Len(decisions[h]), calls[h].search, calls[h].rewrite>>

\* the loop of handler h is left in this step, by one of its exit paths
LoopExit(h) ==
    \/ /\ pc[h] = "extract"
       /\ Len(extractorOutputs'[h]) = Len(extractorOutputs[h]) + 1
       /\ ~HasKnowledge(extractorOutputs'[h][Len(extractorOutputs'[h])])
    \/ /\ pc[h] = "evaluate"
       /\ Len(decisions'[h]) = Len(decisions[h]) + 1
       /\ LET d == decisions'[h][Len(decisions'[h])]
          IN \/ d.isKnowledgeEnough
             \/ iteration[h] >= maxIterations
             \/ ~Truthy(d.nextSearchQuery)

\* C22: a turn that finishes has invoked the synthesizer exactly once; the
\* synthesizer is invoked in the very step in which the loop is left, by any
\* of its exit paths (sufficient, iteration bound, no next query, empty
\* knowledge), and in every such step; once it has been invoked no extractor,
\* evaluator, search or rewrite call is made in that turn, and it is not
\* invoked again.
C22_SynthesisOnceNoBacktracking ==
    [][\A h \in Handlers :
          /\ outcome'[h] = "finished" => calls'[h].synth = 1
          /\ calls'[h].synth <= 1
          /\ (turns' = turns /\ calls'[h].synth # calls[h].synth)
                => LoopExit(h) /\ pc'[h] = "stream"
          /\ LoopExit(h) => calls[h].synth = 0 /\ calls'[h].synth = 1
          /\ (turns' = turns /\ calls[h].synth = 1)
                => /\ LoopCalls(h)' = LoopCalls(h)
                   /\ calls'[h].synth = 1
                   /\ pc'[h] \in {"stream", "put2", "idle"}]_vars

\* C22 witness: the first extraction of a turn produced no knowledge, the
\* knowledge list is empty, and the turn finished with one synthesizer call
\* and an answer
C22_Witness ==
    \E h \in Handlers :
        /\ outcome[h] = "finished"
        /\ iteration[h] = 1
        /\ Len(extractorOutputs[h]) = 1
        /\ accumulatedKnowledge[h] = <<>>
        /\ calls[h].evaluate = 0
        /\ calls[h].search = 1
        /\ calls[h].empty = 1
        /\ allFiles[h] = <<>>
        /\ calls[h].synth = 1
        /\ EventsOf(h, "text-delta") # {}

\* C23: the evaluator is invoked only in an iteration whose extraction
\* produced knowledge, and at most once per iteration.  The evaluator
\* invocations of a turn are as many as its knowledge entries (the entry is
\* pushed and the evaluator called with no await in between), never more than
\* its iterations, and the decisions are as many as the evaluator invocations
\* but for the one in flight or failed; inside iteration k there are k - 1
\* decisions, and every knowledge entry is the output of its iteration.
C23_OneDecisionPerIteration ==
    \A h \in Handlers :
        /\ calls[h].evaluate = Len(accumulatedKnowledge[h])
        /\ calls[h].evaluate <= iteration[h]
        /\ Len(decisions[h]) <= calls[h].evaluate
        /\ calls[h].evaluate - Len(decisions[h]) = (IF pc[h] = "evaluate" THEN 1 ELSE 0)
             \/ (outcome[h] = "aborted" /\ "evaluate" \in failed[h]
                   /\ calls[h].evaluate - Len(decisions[h]) = 1)
        /\ pc[h] \in {"extract", "search"}
             => /\ Len(decisions[h]) = iteration[h] - 1
                /\ Len(accumulatedKnowledge[h]) = iteration[h] - 1
        /\ pc[h] = "evaluate"
             => /\ Len(accumulatedKnowledge[h]) = iteration[h]
                /\ HasKnowledge(extractorOutputs[h][iteration[h]])
        /\ \A k \in 1..Len(accumulatedKnowledge[h]) :
              /\ k <= Len(extractorOutputs[h])
              /\ accumulatedKnowledge[h][k] = extractorOutputs[h][k]
              /\ HasKnowledge(extractorOutputs[h][k])

\* C23 witness: two iterations were evaluated and the third extraction came
\* back empty, so the third iteration has no decision
C23_Witness ==
    \E h \in Handlers :
        /\ iteration[h] = 3
        /\ Len(extractorOutputs[h]) = 3
        /\ ~HasKnowledge(extractorOutputs[h][3])
        /\ Len(decisions[h]) = 2
        /\ calls[h].evaluate = 2
        /\ Len(accumulatedKnowledge[h]) = 2
        /\ outcome[h] = "finished"

\* s is a prefix of t
IsPrefix(s, t) ==
    /\ Len(s) <= Len(t)
    /\ \A i \in 1..Len(s) : s[i] = t[i]

\* C24: the knowledge list is empty when a loop starts, whatever an earlier
\* turn of the session left in it; within a turn every step leaves the list a
\* prefix of what it becomes, adds at most one entry, and adds it only when an
\* extraction ends, so that the list never has more entries than the turn has
\* iterations and the entry added in iteration k stays the last one until
\* iteration k + 1 adds the next.
C24_KnowledgeAppendOnly ==
    [][\A h \in Handlers :
          /\ pc[h] = "put1" => accumulatedKnowledge'[h] = <<>>
          /\ turns' = turns /\ pc[h] # "put1"
                => /\ IsPrefix(accumulatedKnowledge[h], accumulatedKnowledge'[h])
                   /\ Len(accumulatedKnowledge'[h])
                         <= Len(accumulatedKnowledge[h]) + 1
                   /\ accumulatedKnowledge'[h] # accumulatedKnowledge[h]
                         => /\ pc[h] = "extract"
                            /\ iteration'[h] = iteration[h]
                            /\ Len(accumulatedKnowledge'[h]) = iteration[h]
                            /\ accumulatedKnowledge'[h][iteration[h]]
                                  = extractorOutputs'[h][iteration[h]]
          /\ Len(accumulatedKnowledge'[h]) <= iteration'[h]]_vars

\* C24 witness: the second turn of a session, after a first one that was
\* answered from its own knowledge, has collected two entries in two iterations
C24_Witness ==
    \E h \in Handlers :
        /\ turns = 2
        /\ \E i \in 1..Len(messages) : messages[i].role = "assistant"
        /\ iteration[h] = 2
        /\ Len(accumulatedKnowledge[h]) = 2
        /\ accumulatedKnowledge[h] = extractorOutputs[h]
        /\ accumulatedKnowledge[h][1] # accumulatedKnowledge[h][2]
        /\ pc[h] = "evaluate"

\* C25: every evaluator and synthesizer prompt of a turn carries the user's
\* utterance as the history gave it, not the rewritten or the proposed search
\* query, and the knowledge entries collected so far, all of them, joined in
\* the order of their iterations: the evaluator prompt of iteration k carries
\* the outputs of iterations 1..k, the synthesizer prompt every output that
\* was knowledge.
C25_PromptsCarryUtteranceAndKnowledge ==
    \A h \in Handlers :
        /\ Len(prompts[h]) = calls[h].evaluate + calls[h].synth
        /\ \A i \in 1..Len(prompts[h]) :
              /\ prompts[h][i].query = CurrentUtterance(h)
              /\ IF i <= calls[h].evaluate
                 THEN /\ prompts[h][i].to = "evaluator"
                      /\ prompts[h][i].knowledge
                            = Join(SubSeq(extractorOutputs[h], 1, i),
                                   KnowledgeSeparator)
                 ELSE /\ prompts[h][i].to = "synthesizer"
                      /\ prompts[h][i].knowledge
                            = Join(SelectSeq(extractorOutputs[h], HasKnowledge),
                                   KnowledgeSeparator)

\* C25 witness: a turn whose query was rewritten and then replaced by the
\* evaluator's proposal has asked the evaluator twice and the synthesizer
\* once, the latter with two different entries in the order they were found
C25_Witness ==
    \E h \in Handlers :
        /\ Len(prompts[h]) = 3
        /\ extractorInputs[h][1] # CurrentUtterance(h)
        /\ extractorInputs[h][2] = <<"n">>
        /\ prompts[h][2].to = "evaluator"
        /\ prompts[h][2].knowledge = <<"k", "\n", "\n", "j">>
        /\ prompts[h][3].to = "synthesizer"
        /\ prompts[h][3].knowledge = <<"k", "\n", "\n", "j">>
        /\ prompts[h][3].query = <<"a">>

\* C26, as claimed: an extractor session invokes the search tool at most 3
\* times (steps counts the generation steps of the running session that
\* called the tool), within at most 5 generation steps.
C26_AtMostThreeSearches ==
    \A h \in Handlers :
        /\ steps[h] <= 3
        /\ steps[h] <= stepLimit

\* C27, as claimed: within one loop execution at most one search is in flight
\* at any time, and a search is issued only when none is pending.
C27_OneSearchInFlight ==
    \A h \in Handlers : InFlight(h) <= 1

(***************************************************************************)
(* Properties of overlapping handlers.                                     *)
(***************************************************************************)
\* handler h is inside streamWithMultiStepTools, suspended in a generation,
\* a search or the stream
LoopActive(h) ==
    pc[h] \in {"rewrite", "extract", "search", "resolve", "evaluate", "stream"}

\* C28, as claimed: at any time at most one loop execution is active for the
\* session, also when a second message arrives while the first is suspended
\* in a generation or search call.
C28_SingleFlight ==
    Cardinality({ h \in Handlers : LoopActive(h) }) <= 1

\* how often m occurs in the sequence s
Count(s, m) == Cardinality({ i \in 1..Len(s) : s[i] = m })

\* what the last turn of handler h had to add to the history once it ended:
\* the messages it accepted and, if it finished with one, its answer
Contributed(h) ==
    IF outcome[h] \notin {"finished", "aborted"} \/ "parse" \in failed[h]
    THEN <<>>
    ELSE inbound[h]
           \o (IF outcome[h] = "finished" /\ Trim(completeResponse[h]) # <<>>
               THEN << Msg("assistant", completeResponse[h]) >>
               ELSE <<>>)

\* C29: once no handler is in progress, the persisted history holds every
\* message the handlers' last turns accepted and every non-empty answer they
\* produced, each as often as it was contributed, whether the turns overlapped
\* or not; and it is the in-memory history.
C29_NoLostTurns ==
    (\A h \in Handlers : pc[h] = "idle")
    => /\ \A h \in Handlers : \A i \in 1..Len(Contributed(h)) :
             Count(storage.value, Contributed(h)[i])
                >= Count(Contributed(1) \o Contributed(2), Contributed(h)[i])
       /\ storage.has => messages = storage.value

\* C29 witness: the second message arrived while the first was being
\* answered, both turns finished with an answer, and the history holds the two
\* questions and the two answers
C29_Witness ==
    /\ \A h \in Handlers : pc[h] = "idle" /\ outcome[h] = "finished"
    /\ inbound[1] # inbound[2]
    /\ turnBase[1] = inbound[2]
    /\ turnBase[2] = <<>>
    /\ Len(storage.value) = 4
    /\ storage.value[2] = inbound[1][1]
    /\ storage.value[3].role = "assistant"
    /\ storage.value[4].role = "assistant"

\* C30: every step leaves the persisted history a prefix of what it becomes,
\* whichever of the handlers takes it and whether it is a connect, the arrival
\* of a message or a step of a loop; a step that changes the history appends
\* the accepted messages or one assistant turn.
C30_HistoryAppendOnly ==
    [][/\ IsPrefix(storage.value, storage'.value)
       /\ storage.has => storage'.has
       /\ storage'.value # storage.value
            => \E h \in Handlers :
                  \/ /\ pc[h] = "get"
                     /\ storage'.value = storage.value \o inbound[h]
                  \/ /\ pc[h] = "stream"
                     /\ storage'.value
                          = Append(storage.value,
                                   Msg("assistant", completeResponse[h]))]_vars

\* C30 witness: a client connected to a session whose history already held
\* the question and the answer of one turn and the question of a second, and
\* the second turn then added its answer
C30_Witness ==
    /\ Len(storage.value) = 4
    /\ greeting # <<>>
    /\ Len(greeting[1].data) = 3
    /\ IsPrefix(greeting[1].data, storage.value)
    /\ storage.value[2].role = "assistant"
    /\ storage.value[4].role = "assistant"
    /\ \A h \in Handlers : pc[h] = "idle"

(***************************************************************************)
(* Properties of onConnect.                                                *)
(***************************************************************************)
\* C31: what a connecting client is sent is decided by what is stored at that
\* moment: one message-history event carrying the stored history when that
\* history is not empty, and nothing when nothing or an empty list is stored;
\* before any client has connected nothing has been sent.
C31_HistoryOnConnect ==
    /\ ~connected.done => greeting = <<>>
    /\ (connected.done /\ connected.has /\ Len(connected.value) > 0)
          => /\ Len(greeting) = 1
             /\ greeting[1].type = "message-history"
             /\ greeting[1].data = connected.value
    /\ (connected.done /\ (~connected.has \/ Len(connected.value) = 0))
          => greeting = <<>>

\* C31 witness: a client connected while a turn was being answered and was
\* sent the two messages stored by then; the turn has since stored its answer
C31_Witness ==
    /\ connected.done
    /\ Len(connected.value) = 2
    /\ Len(greeting) = 1
    /\ greeting[1].data = connected.value
    /\ Len(storage.value) = 3
    /\ storage.value[3].role = "assistant"

\* C31 witness of the empty case: a client connected to a session that has
\* stored an empty list, and was sent nothing
C31_WitnessEmpty ==
    /\ connected.done
    /\ connected.has
    /\ connected.value = <<>>
    /\ greeting = <<>>

(***************************************************************************)
(* Properties of the events of a turn.                                     *)
(***************************************************************************)
\* C32: in a turn that completes, the text fragments are sent in the order
\* the stream delivers them and before the history is written; the write,
\* which carries the answer if there is one, sends nothing; after it the files
\* event, if one is sent, and then the finish event are sent; finish is sent
\* once, is the last event of the turn, and nothing follows it until another
\* message starts a turn.
C32_EventOrder ==
    [][\A h \in Handlers :
          /\ (pc[h] = "stream" /\ pc'[h] = "stream")
                => /\ IsPrefix(sent[h], sent'[h])
                   /\ Len(sent'[h]) = Len(sent[h]) + 1
                   /\ sent'[h][Len(sent'[h])].type \in {"text-delta", "error"}
                   /\ storage' = storage
          /\ (pc[h] = "stream" /\ pc'[h] = "put2")
                => /\ sent'[h] = sent[h]
                   /\ EventsOf(h, "files") = {} /\ EventsOf(h, "finish") = {}
                   /\ storage'.value = messages'
                   /\ Trim(completeResponse[h]) # <<>>
                        => storage'.value
                             = Append(storage.value,
                                      Msg("assistant", completeResponse[h]))
          /\ pc[h] = "put2"
                => /\ pc'[h] = "idle" /\ outcome'[h] = "finished"
                   /\ storage' = storage
                   /\ \/ sent'[h] = Append(sent[h], Event("finish", <<>>))
                      \/ sent'[h] = sent[h] \o <<Event("files", allFiles[h]),
                                                 Event("finish", <<>>)>>
          /\ outcome'[h] = "finished"
                => /\ Cardinality({ i \in 1..Len(sent'[h]) :
                                       sent'[h][i].type = "finish" }) = 1
                   /\ sent'[h][Len(sent'[h])].type = "finish"
          /\ (outcome[h] = "finished" /\ turns' = turns)
                => sent'[h] = sent[h]]_vars

\* C32 witness: a completed turn that sent two fragments, wrote the history
\* with its answer, and then sent the files and finish
C32_Witness ==
    \E h \in Handlers :
        /\ outcome[h] = "finished"
        /\ Cardinality(EventsOf(h, "text-delta")) = 2
        /\ Len(sent[h]) >= 4
        /\ sent[h][Len(sent[h]) - 3].type = "text-delta"
        /\ sent[h][Len(sent[h]) - 2].type = "text-delta"
        /\ sent[h][Len(sent[h]) - 1].type = "files"
        /\ sent[h][Len(sent[h])].type = "finish"
        /\ storage.value[Len(storage.value)]
              = Msg("assistant", completeResponse[h])

\* C33, as claimed: when a loop execution appends its answer, the persisted
\* history ends with the messages that triggered the execution followed by
\* that answer, also when another message arrived meanwhile.
C33_AnswerFollowsQuestion ==
    [][\A h \in Handlers :
          (/\ pc[h] = "stream" /\ pc'[h] = "put2"
           /\ inbound[h] # <<>>
           /\ Trim(completeResponse[h]) # <<>>)
          => LET v == storage'.value
                 n == Len(storage'.value)
                 k == Len(inbound[h])
             IN /\ n > k
                /\ SubSeq(v, n - k, n - 1) = inbound[h]
                /\ v[n] = Msg("assistant", completeResponse[h])]_vars

(***************************************************************************)
(* Properties of the query of a loop.                                      *)
(***************************************************************************)
\* C34, as claimed: the query a loop execution runs on is the content of a
\* user-role message that the inbound message starting the execution
\* delivered; an inbound message with an empty messages array starts no loop.
C34_QueryFromInbound ==
    \A h \in Handlers :
        loopHistory[h] # <<>>
        => \E i \in 1..Len(inbound[h]) :
              /\ inbound[h][i].role = "user"
              /\ inbound[h][i].content = userQuery[h]

(***************************************************************************)
(* Properties of the session state.                                        *)
(***************************************************************************)
\* C35, as claimed: the searches of one loop execution all go to the same
\* search target, also when a message selects another target while the loop
\* is in flight.
C35_OneTargetPerLoop ==
    \A h \in Handlers :
        \A i, j \in 1..Len(calls[h].targets) :
            calls[h].targets[i] = calls[h].targets[j]

TurnEnded(h) == pc[h] = "idle" /\ outcome[h] \in {"finished", "aborted"}

\* C37: provided every call a turn awaits eventually returns or fails, a turn
\* in progress eventually ends; and a turn that has ended has either finished,
\* with exactly one finish event, sent last, or was aborted, with an error
\* event sent last and no finish event.
C37_TurnEndsOneWay ==
    /\ \A h \in Sequential : (pc[h] # "idle") ~> TurnEnded(h)
    /\ [](\A h \in Sequential :
            /\ (TurnEnded(h) /\ outcome[h] = "finished")
                  => /\ Cardinality(EventsOf(h, "finish")) = 1
                     /\ sent[h][Len(sent[h])].type = "finish"
            /\ (TurnEnded(h) /\ outcome[h] = "aborted")
                  => /\ EventsOf(h, "finish") = {}
                     /\ EventsOf(h, "error") # {}
                     /\ sent[h][Len(sent[h])].type = "error")

\* C37 witness: a turn ran to the iteration bound and then ended with the
\* finish event
C37_Witness ==
    \E h \in Sequential :
        /\ TurnEnded(h)
        /\ outcome[h] = "finished"
        /\ iteration[h] = maxIterations
        /\ Cardinality(EventsOf(h, "finish")) = 1

\* a turn was aborted by the evaluator after a search and ended with the
\* error event
C37_WitnessAborted ==
    \E h \in Sequential :
        /\ TurnEnded(h)
        /\ outcome[h] = "aborted"
        /\ "evaluate" \in failed[h]
        /\ calls[h].search > 0
        /\ EventsOf(h, "finish") = {}

(***************************************************************************)
(* Properties of the session counter.                                      *)
(***************************************************************************)
\* the search-start events a step sends to the client of handler h (the
\* arrival of a message clears the record of the turn before and sends none)
StartsSent(h) ==
    IF IsPrefix(sent[h], sent'[h])
    THEN Cardinality({ i \in (Len(sent[h]) + 1)..Len(sent'[h]) :
                          sent'[h][i].type = "search-start" })
    ELSE 0

\* C38: totalSearches starts at 0 and every step adds to it exactly the
\* number of search-start events the step sends, which is 1 for a search that
\* passes the target test, whatever the search then returns, and 0 for a
\* search rejected for a missing target and for every other step; so it never
\* decreases and always is the number of search-start events of the session.
C38_CounterCountsSearchStarts ==
    [][/\ totalSearches' = totalSearches
                              + StartsSent(1) + StartsSent(2)
       /\ totalSearches' >= totalSearches
       /\ \A h \in Handlers :
             /\ calls'[h].search > calls[h].search
                  => /\ calls'[h].search = calls[h].search + 1
                     /\ totalSearches' = totalSearches + 1
             /\ ("target" \in failed'[h] /\ "target" \notin failed[h])
                  => totalSearches' = totalSearches]_vars

\* C38 witness: two searches passed the target test, one of them failed and
\* one returned, and the counter stands at 2 with two search-start events sent
C38_Witness ==
    \E h \in Handlers :
        /\ totalSearches = 2
        /\ Cardinality(EventsOf(h, "search-start")) = 2
        /\ calls[h].rejected = 1
        /\ Len(returned[h]) = 2
        /\ \E i \in 1..2 : returned[h][i].success

\* a search was rejected for the missing target and the counter stands at 0
C38_WitnessRejected ==
    \E h \in Handlers :
        /\ "target" \in failed[h]
        /\ totalSearches = 0
        /\ EventsOf(h, "search-start") = {}

====
